---- MODULE Spec2Model ----
(***************************************************************************)
(* News aggregation and vector similarity search                           *)
(* (anik2644/ai_agent_web_scrapper).                                       *)
(*                                                                         *)
(*   main.py                      ingestion: load corpus, fetch, merge,    *)
(*                                append, save                             *)
(*   vector_database_creation.py  NewsVectorDB: build_from_scratch,        *)
(*                                save_vector_db, load_vector_db,          *)
(*                                search_similar                           *)
(*                                                                         *)
(* Strings are sequences of characters.  A Python dict is a TLA+ function  *)
(* whose DOMAIN is the set of keys present.                                *)
(***************************************************************************)
EXTENDS Integers, Sequences, FiniteSets, TLC

VARIABLES
  newsFile,      \* news_data.json: [st, docs]
  run,           \* what the last ingestion run (main.py main) did
  mergeCall,     \* one call of merge_and_deduplicate_news: arguments and result
  indexFile,     \* news_index.faiss: [st, rows]
  metadataFile,  \* news_metadata.pkl: [st, entries]
  configFile,    \* vector_db_config.json: [st, cfg]
  builder,       \* the process running build_from_scratch on a NewsVectorDB
  query          \* the process running load_vector_db / search_similar

vars == <<newsFile, run, mergeCall, indexFile, metadataFile, configFile, builder, query>>

(***************************************************************************)
(* Bounds of the model.                                                    *)
(***************************************************************************)
MaxBatch == 2    \* articles fetched in one ingestion run (both sources together)
MaxCorpus == 3   \* documents in news_data.json

(***************************************************************************)
(* Generic helpers.                                                        *)
(***************************************************************************)
Min(a, b) == IF a < b THEN a ELSE b

SeqsUpTo(S, n) == UNION {[1..m -> S] : m \in 0..n}

Range(s) == {s[i] : i \in 1..Len(s)}

\* Python s[:n]
Take(s, n) == SubSeq(s, 1, Min(n, Len(s)))

\* Python d.get(key, default)
Get(d, key, default) == IF key \in DOMAIN d THEN d[key] ELSE default

\* Python truthiness of d.get(key) for string values
Truthy(d, key) == key \in DOMAIN d /\ d[key] # <<>>

(***************************************************************************)
(* Documents as the two fetchers produce them.                             *)
(***************************************************************************)
\* feed entries of the CNN RSS feed (entry.title is taken as is)
CnnHeadlines == {<<"F">>, <<"f">>, <<"F", " ">>}

\* headlines of the Daily Star page (a.text.strip())
DailyStarHeadlines == {<<"F">>, <<"Q">>}

\* get_formatted_cnn_news: one list element
CnnArticle(h) ==
  [source_url |-> <<"c", "/">> \o h, headline |-> h, full_news |-> <<"b">>,
   published_time |-> <<"1">>, source |-> <<"C", "N", "N">>]

\* get_formatted_daily_star_news: one list element
DailyStarArticle(h) ==
  [source_url |-> <<"d", "/">> \o h, headline |-> h,
   full_news |-> IF h = <<"Q">> THEN <<>> ELSE <<"b", "c">>,
   published_time |-> <<"2">>, source |-> <<"D", "S">>]

CnnArticles == {CnnArticle(h) : h \in CnnHeadlines}

DailyStarArticles == {DailyStarArticle(h) : h \in DailyStarHeadlines}

Articles == CnnArticles \cup DailyStarArticles

(***************************************************************************)
(* DedupKey of the specification: the headline case-folded and             *)
(* whitespace-collapsed.                                                   *)
(***************************************************************************)
CaseFoldChar(c) ==
  CASE c = "F" -> "f"
    [] c = "Q" -> "q"
    [] OTHER -> c

CaseFold(s) == [i \in 1..Len(s) |-> CaseFoldChar(s[i])]

RECURSIVE CollapseWs(_)
\* " ".join(s.split()): runs of blanks become one blank, blanks at the ends go
CollapseWs(s) ==
  IF s = <<>> THEN <<>>
  ELSE IF Head(s) = " " THEN CollapseWs(Tail(s))
  ELSE LET rest == CollapseWs(Tail(s))
       IN  IF Len(s) > 1 /\ s[2] = " " /\ rest # <<>>
           THEN <<Head(s), " ">> \o rest
           ELSE <<Head(s)>> \o rest

DedupKey(doc) == CollapseWs(CaseFold(doc.headline))

(***************************************************************************)
(* main.py                                                                 *)
(***************************************************************************)
Missing == [st |-> "missing"]
Corrupt == [st |-> "corrupt"]
NewsJson(docs) == [st |-> "ok", docs |-> docs]

\* load_existing_news: FileNotFoundError and JSONDecodeError give []
load_existing_news(file) == IF file.st = "ok" THEN file.docs ELSE <<>>

\* news['headline'] raises KeyError when the key is absent
MergeRaises(existing_news, new_news) ==
  \/ \E i \in 1..Len(existing_news) : "headline" \notin DOMAIN existing_news[i]
  \/ \E i \in 1..Len(new_news) : "headline" \notin DOMAIN new_news[i]

\* the set built at line 24; it is not touched again
existing_headlines(existing_news) ==
  {existing_news[i].headline : i \in 1..Len(existing_news)}

RECURSIVE FilterNew(_, _)
\* the loop of lines 27-31: the items of new_news, in order, whose headline is
\* not in the set
FilterNew(new_news, headlines) ==
  IF new_news = <<>> THEN <<>>
  ELSE (IF Head(new_news).headline \notin headlines THEN <<Head(new_news)>> ELSE <<>>)
       \o FilterNew(Tail(new_news), headlines)

merge_and_deduplicate_news_skip_last(existing_news, new_news) ==
  FilterNew(new_news,
            existing_headlines(SubSeq(existing_news, 1, Len(existing_news) - 1)))

merge_and_deduplicate_news_reversed(existing_news, new_news) ==
  LET kept == FilterNew(new_news, existing_headlines(existing_news))
  IN  [i \in 1..Len(kept) |-> kept[Len(kept) + 1 - i]]

merge_and_deduplicate_news_normalized(existing_news, new_news) ==
  LET keys == {DedupKey(existing_news[i]) : i \in 1..Len(existing_news)}
      IsNew(news_item) == DedupKey(news_item) \notin keys
  IN  SelectSeq(new_news, IsNew)

\* merge_and_deduplicate_news, when no KeyError is raised
merge_and_deduplicate_news(existing_news, new_news) ==
  FilterNew(new_news, existing_headlines(existing_news))

\* a record of the corpus file that has no 'headline' key
NoHeadlineRecord == [source_url |-> <<"x">>, source |-> <<"X">>]

NoRun ==
  [ran |-> FALSE, existing_news |-> <<>>, cnn_failed |-> FALSE, ds_failed |-> FALSE,
   cnn_news |-> <<>>, daily_star_news |-> <<>>, all_new_news |-> <<>>,
   unique_new_news |-> <<>>, save |-> "none"]

NoCall == [pc |-> "none"]

\* save_news_to_json: the file after a save that ended as `outcome`.  open(.., 'w')
\* truncates before json.dump writes, and every exception is swallowed.
save_news_to_json(file, all_news, outcome) ==
  CASE outcome = "ok" -> NewsJson(all_news)
    [] outcome = "open_failed" -> file
    [] outcome = "write_failed" -> Corrupt

\* what a fetcher does: it returns a list of articles, or it raises
FetchOutcomes(articles) ==
  {[failed |-> TRUE, news |-> <<>>]} \cup
  {[failed |-> FALSE, news |-> s] : s \in SeqsUpTo(articles, MaxBatch)}

\* main() without the try/except of lines 92-98 and 102-106: the exception of a
\* fetcher leaves main, nothing is merged and nothing is saved
Ingest_fetch_failure_ends_run(cnn, ds, outcome) ==
  LET existing_news == load_existing_news(newsFile)
      failed == cnn.failed \/ ds.failed
      cnn_news == IF cnn.failed THEN <<>> ELSE cnn.news
      daily_star_news == IF ds.failed THEN <<>> ELSE ds.news
      all_new_news == IF failed THEN <<>> ELSE cnn_news \o daily_star_news
      unique_new_news == merge_and_deduplicate_news(existing_news, all_new_news)
      all_news == existing_news \o unique_new_news
  IN  /\ Len(cnn_news \o daily_star_news) <= MaxBatch
      /\ Len(all_news) <= MaxCorpus
      /\ unique_new_news = <<>> => outcome = "ok"
      /\ newsFile' = IF unique_new_news # <<>>
                     THEN save_news_to_json(newsFile, all_news, outcome)
                     ELSE newsFile
      /\ run' = [ran |-> TRUE, existing_news |-> existing_news,
                 cnn_failed |-> cnn.failed, ds_failed |-> ds.failed,
                 cnn_news |-> cnn_news, daily_star_news |-> daily_star_news,
                 all_new_news |-> all_new_news, unique_new_news |-> unique_new_news,
                 save |-> IF unique_new_news = <<>> THEN "none"
                          ELSE IF outcome = "ok" THEN "ok" ELSE "failed"]
      /\ UNCHANGED <<mergeCall, indexFile, metadataFile, configFile, builder, query>>

\* main.py main(): one ingestion run.  cnn and ds are what the two fetchers did
\* (when a fetcher raised, the run goes on with []).
Ingest(cnn, ds, outcome) ==
  LET existing_news == load_existing_news(newsFile)
      cnn_news == IF cnn.failed THEN <<>> ELSE cnn.news
      daily_star_news == IF ds.failed THEN <<>> ELSE ds.news
      all_new_news == cnn_news \o daily_star_news
      unique_new_news == merge_and_deduplicate_news(existing_news, all_new_news)
      all_news == existing_news \o unique_new_news
  IN  /\ Len(all_new_news) <= MaxBatch
      /\ Len(all_news) <= MaxCorpus
      /\ ~MergeRaises(existing_news, all_new_news)
      /\ unique_new_news = <<>> => outcome = "ok"
      /\ newsFile' = IF unique_new_news # <<>>
                     THEN save_news_to_json(newsFile, all_news, outcome)
                     ELSE newsFile
      /\ run' = [ran |-> TRUE, existing_news |-> existing_news,
                 cnn_failed |-> cnn.failed, ds_failed |-> ds.failed,
                 cnn_news |-> cnn_news, daily_star_news |-> daily_star_news,
                 all_new_news |-> all_new_news, unique_new_news |-> unique_new_news,
                 save |-> IF unique_new_news = <<>> THEN "none"
                          ELSE IF outcome = "ok" THEN "ok" ELSE "failed"]
      /\ UNCHANGED <<mergeCall, indexFile, metadataFile, configFile, builder, query>>

CnnFetches == FetchOutcomes(CnnArticles)

DailyStarFetches == FetchOutcomes(DailyStarArticles)

\* One run of main.py.  Ingest reads newsFile and nothing of `run`, so the run
\* that came before does not change what a run can do: a run is followed here
\* by the end of its process (MainExit), or by one more run whose fetchers do
\* what they did in the run before it (the re-run with the same fetched batch).
IngestRun ==
  \E outcome \in {"ok", "open_failed", "write_failed"} :
    \/ /\ ~run.ran
       /\ \E cnn \in CnnFetches, ds \in DailyStarFetches : Ingest(cnn, ds, outcome)
    \/ /\ run.ran
       /\ Ingest([failed |-> run.cnn_failed, news |-> run.cnn_news],
                 [failed |-> run.ds_failed, news |-> run.daily_star_news], outcome)

\* main() returns and the process ends: its locals are gone, the file stays
MainExit ==
  /\ run.ran
  /\ run' = NoRun
  /\ UNCHANGED <<newsFile, mergeCall, indexFile, metadataFile, configFile, builder, query>>

\* one call of merge_and_deduplicate_news on the arguments drawn in InitMerge
MergeCall ==
  /\ mergeCall.pc = "call"
  /\ mergeCall' =
       IF MergeRaises(mergeCall.existing_news, mergeCall.new_news)
       THEN [mergeCall EXCEPT !.pc = "raised"]
       ELSE [mergeCall EXCEPT
               !.pc = "returned",
               !.result = merge_and_deduplicate_news(mergeCall.existing_news,
                                                     mergeCall.new_news)]
  /\ UNCHANGED <<newsFile, run, indexFile, metadataFile, configFile, builder, query>>

(***************************************************************************)
(* vector_database_creation.py: NewsVectorDB                               *)
(***************************************************************************)
\* full_news[:1000] at line 57 and full_news[:200] at line 90
BodyPrefixLen == 1000
PreviewLen == 200

\* search_similar's default k, and the k of the interactive loop
DefaultK == 5

\* Python None
None == [none |-> TRUE]

RECURSIVE JoinWith(_, _)
\* sep.join(parts)
JoinWith(parts, sep) ==
  IF parts = <<>> THEN <<>>
  ELSE IF Len(parts) = 1 THEN parts[1]
  ELSE parts[1] \o sep \o JoinWith(Tail(parts), sep)

\* load_news_data: a missing or undecodable file gives []
load_news_data(file) == IF file.st = "ok" THEN file.docs ELSE <<>>

prepare_text_for_embedding(article) ==
  LET text_parts ==
        (IF Truthy(article, "headline")
         THEN << <<"Headline: ">> \o article.headline >> ELSE <<>>)
        \o (IF Truthy(article, "full_news")
            THEN << <<"Content: ">> \o Take(article.full_news, BodyPrefixLen) >> ELSE <<>>)
        \o (IF Truthy(article, "source")
            THEN << <<"Source: ">> \o article.source >> ELSE <<>>)
  IN  JoinWith(text_parts, <<" ">>)

\* the metadata dict of lines 84-91 (idx counts from 0)
MetadataEntry(idx, article) ==
  [id |-> idx,
   headline |-> Get(article, "headline", <<>>),
   source_url |-> Get(article, "source_url", <<>>),
   published_time |-> Get(article, "published_time", <<>>),
   source |-> Get(article, "source", <<"Unknown">>),
   full_news_preview |->
     IF Truthy(article, "full_news")
     THEN Take(article.full_news, PreviewLen) \o <<"...">>
     ELSE <<>>]

\* The embedding provider (SentenceTransformer.encode on one text): a fixed
\* function from texts to vectors of one dimension.
CharCode(c) ==
  CASE c = "F" -> 1
    [] c = "f" -> 2
    [] c = "Q" -> 4
    [] c = "D" -> 1
    [] OTHER -> 0

RECURSIVE SumCodes(_)
SumCodes(text) == IF text = <<>> THEN 0 ELSE CharCode(Head(text)) + SumCodes(Tail(text))

Encode(text) == <<SumCodes(text), Len(text) % 3>>

\* create_embeddings(news_data) on an object whose self.metadata and
\* self.embeddings are given.  fail_at = 0: the provider embeds every text;
\* fail_at = i: it raises at the i-th text.  <<>> for embeddings stands for None.
create_embeddings_keep_metadata(self_metadata, self_embeddings, news_data, fail_at) ==
  IF news_data = <<>>
  THEN [raised |-> FALSE, ret |-> <<>>, encoded |-> 0,
        metadata |-> self_metadata, embeddings |-> self_embeddings]
  ELSE LET texts == [i \in 1..Len(news_data) |-> prepare_text_for_embedding(news_data[i])]
           metadata == self_metadata \o
                       [i \in 1..Len(news_data) |-> MetadataEntry(i - 1, news_data[i])]
       IN  IF fail_at # 0
           THEN [raised |-> TRUE, ret |-> <<>>, encoded |-> Len(texts),
                 metadata |-> metadata, embeddings |-> self_embeddings]
           ELSE LET embeddings == [i \in 1..Len(texts) |-> Encode(texts[i])]
                IN  [raised |-> FALSE, ret |-> embeddings, encoded |-> Len(texts),
                     metadata |-> metadata, embeddings |-> embeddings]

create_embeddings_swallow_failure(self_metadata, self_embeddings, news_data, fail_at) ==
  IF news_data = <<>>
  THEN [raised |-> FALSE, ret |-> <<>>, encoded |-> 0,
        metadata |-> self_metadata, embeddings |-> self_embeddings]
  ELSE LET texts == [i \in 1..Len(news_data) |-> prepare_text_for_embedding(news_data[i])]
           metadata == [i \in 1..Len(news_data) |-> MetadataEntry(i - 1, news_data[i])]
           n == IF fail_at = 0 THEN Len(texts) ELSE fail_at - 1
           embeddings == [i \in 1..n |-> Encode(texts[i])]
       IN  [raised |-> FALSE, ret |-> embeddings, encoded |-> Len(texts),
            metadata |-> metadata, embeddings |-> embeddings]

create_embeddings(self_metadata, self_embeddings, news_data, fail_at) ==
  IF news_data = <<>>
  THEN [raised |-> FALSE, ret |-> <<>>, encoded |-> 0,
        metadata |-> self_metadata, embeddings |-> self_embeddings]
  ELSE LET texts == [i \in 1..Len(news_data) |-> prepare_text_for_embedding(news_data[i])]
           metadata == [i \in 1..Len(news_data) |-> MetadataEntry(i - 1, news_data[i])]
       IN  IF fail_at # 0
           THEN [raised |-> TRUE, ret |-> <<>>, encoded |-> Len(texts),
                 metadata |-> metadata, embeddings |-> self_embeddings]
           ELSE LET embeddings == [i \in 1..Len(texts) |-> Encode(texts[i])]
                IN  [raised |-> FALSE, ret |-> embeddings, encoded |-> Len(texts),
                     metadata |-> metadata, embeddings |-> embeddings]

\* build_faiss_index: None for no embeddings, else an IndexFlatL2 of dimension
\* embeddings.shape[1] holding the rows in order
build_faiss_index(embeddings) ==
  IF embeddings = <<>> THEN None
  ELSE [none |-> FALSE, d |-> Len(embeddings[1]), rows |-> embeddings]

\* the config dict of lines 141-147 (created_at, a timestamp, is left out)
ConfigOf(self_metadata, index) ==
  [num_articles |-> Len(self_metadata), embedding_dim |-> index.d,
   index_type |-> "IndexFlatL2", model_name |-> "all-MiniLM-L6-v2"]

IndexFileOf(index) == [st |-> "ok", index |-> index]
MetadataFileOf(entries) == [st |-> "ok", entries |-> entries]
ConfigFileOf(cfg) == [st |-> "ok", cfg |-> cfg]

\* A file after a write that ended as `outcome`: written, left as it was (the open
\* failed), or cut short (the write failed after the file was truncated).
WriteFile(file, content, outcome) ==
  CASE outcome = "ok" -> content
    [] outcome = "open_failed" -> file
    [] outcome = "write_failed" -> Corrupt

WriteOutcomes == {"ok", "open_failed", "write_failed"}

\* what a complete save_vector_db of a build over docs leaves on disk
SavedIndexFile(docs) ==
  IndexFileOf(build_faiss_index(create_embeddings(<<>>, <<>>, docs, 0).ret))

SavedMetadataFile(docs) == MetadataFileOf(create_embeddings(<<>>, <<>>, docs, 0).metadata)

SavedConfigFile(docs) ==
  ConfigFileOf(ConfigOf(create_embeddings(<<>>, <<>>, docs, 0).metadata,
                        build_faiss_index(create_embeddings(<<>>, <<>>, docs, 0).ret)))

\* build_from_scratch line 203: `if not news_data: return False`
LoadingFails_never(news_data) == FALSE

LoadingFails(news_data) == news_data = <<>>

\* A NewsVectorDB as __init__ leaves it, in a process that has not built yet.
\* metadata, embeddings: self.metadata, self.embeddings (<<>> for None); index:
\* the index being saved.  Of the last build_from_scratch: result ("True",
\* "False", "raised": an exception left it), the stages it entered, the number of
\* texts handed to the provider and whether the provider failed, the number of
\* files save_vector_db wrote, and the three files as they were when it began.
\* model_name: the name of the model in self.model.
NewBuilder ==
  [pc |-> "idle", metadata |-> <<>>, embeddings |-> <<>>, index |-> None,
   result |-> "none", stages |-> <<>>, encoded |-> 0, provider_failed |-> FALSE,
   written |-> 0, disk0 |-> <<>>, model_name |-> "all-MiniLM-L6-v2"]

\* model names an object may be constructed with: the default of line 14, and
\* another SentenceTransformer model
ModelNames == {"all-MiniLM-L6-v2", "all-mpnet-base-v2"}

\* NewsVectorDB(model_name=...): __init__ loads that model into self.model.  The
\* vectors a model gives are those of Encode whichever model it is: what the
\* build writes to the config does not depend on them.
NewsVectorDB(model_name) == [NewBuilder EXCEPT !.model_name = model_name]

\* the querying process before it has loaded anything
NewQuery ==
  [pc |-> "idle", index |-> None, metadata |-> None, call |-> None,
   searched |-> None, results |-> <<>>, outcome |-> "none"]

\* build_from_scratch up to the call of save_vector_db: load_news_data,
\* create_embeddings, build_faiss_index.  fail_at as for create_embeddings.
BuildStart(fail_at) ==
  LET news_data == load_news_data(newsFile)
      ce == create_embeddings(builder.metadata, builder.embeddings, news_data, fail_at)
      index == build_faiss_index(ce.ret)
      begun == [builder EXCEPT !.disk0 = <<indexFile, metadataFile, configFile>>,
                               !.index = None, !.encoded = 0, !.written = 0,
                               !.provider_failed =
                                   (~LoadingFails(news_data) /\ fail_at # 0)]
  IN  /\ builder.pc = "idle"
      /\ fail_at \in 0..Len(news_data)
      /\ builder' =
           IF LoadingFails(news_data)
           THEN [begun EXCEPT !.result = "False", !.stages = <<"Loading">>]
           ELSE IF ce.raised
           THEN [begun EXCEPT !.result = "raised", !.stages = <<"Loading", "Embedding">>,
                              !.metadata = ce.metadata, !.embeddings = ce.embeddings,
                              !.encoded = ce.encoded]
           ELSE IF ce.ret = <<>>
           THEN [begun EXCEPT !.result = "False", !.stages = <<"Loading", "Embedding">>,
                              !.metadata = ce.metadata, !.embeddings = ce.embeddings,
                              !.encoded = ce.encoded]
           ELSE IF index = None
           THEN [begun EXCEPT !.result = "False",
                              !.stages = <<"Loading", "Embedding", "Building">>,
                              !.metadata = ce.metadata, !.embeddings = ce.embeddings,
                              !.encoded = ce.encoded]
           ELSE [begun EXCEPT !.pc = "save_index", !.result = "none",
                              !.stages = <<"Loading", "Embedding", "Building", "Persisted">>,
                              !.metadata = ce.metadata, !.embeddings = ce.embeddings,
                              !.encoded = ce.encoded, !.index = index]
      /\ UNCHANGED <<newsFile, run, mergeCall, indexFile, metadataFile, configFile, query>>

\* an exception leaves save_vector_db and build_from_scratch
SaveRaised == [builder EXCEPT !.pc = "idle", !.result = "raised", !.index = None]

\* save_vector_db line 132: faiss.write_index(index, self.faiss_index_file)
SaveIndex(outcome) ==
  /\ builder.pc = "save_index"
  /\ indexFile' = WriteFile(indexFile, IndexFileOf(builder.index), outcome)
  /\ builder' = IF outcome = "ok"
                THEN [builder EXCEPT !.pc = "save_metadata", !.written = 1]
                ELSE SaveRaised
  /\ UNCHANGED <<newsFile, run, mergeCall, metadataFile, configFile, query>>

\* save_vector_db lines 136-137: pickle.dump(self.metadata, f)
SaveMetadata(outcome) ==
  /\ builder.pc = "save_metadata"
  /\ metadataFile' = WriteFile(metadataFile, MetadataFileOf(builder.metadata), outcome)
  /\ builder' = IF outcome = "ok"
                THEN [builder EXCEPT !.pc = "save_config", !.written = 2]
                ELSE SaveRaised
  /\ UNCHANGED <<newsFile, run, mergeCall, indexFile, configFile, query>>

\* save_vector_db lines 141-151: json.dump(config, f); then build_from_scratch
\* returns True
SaveConfig(outcome) ==
  /\ builder.pc = "save_config"
  /\ configFile' = WriteFile(configFile,
                             ConfigFileOf(ConfigOf(builder.metadata, builder.index)), outcome)
  /\ builder' = IF outcome = "ok"
                THEN [builder EXCEPT !.pc = "idle", !.result = "True", !.index = None,
                                     !.written = 3]
                ELSE SaveRaised
  /\ UNCHANGED <<newsFile, run, mergeCall, indexFile, metadataFile, query>>

\* faiss IndexFlatL2: squared Euclidean distance
L2Sqr(x, y) ==
  LET sq(i) == (x[i] - y[i]) * (x[i] - y[i])
      RECURSIVE Sum(_)
      Sum(i) == IF i = 0 THEN 0 ELSE sq(i) + Sum(i - 1)
  IN  Sum(Len(x))

\* faiss fills the places for which there is no row with label -1 and this distance
FaissPadDistance == 2147483647

\* index.search(query_embedding, k): the k (distance, label) pairs faiss may
\* return, nearest first, rows at equal distance in any order; label i is row i
\* counted from 0.  With fewer than k rows the rest is padding.
FaissSearch(index, qe, k) ==
  LET n == Len(index.rows)
      dist(i) == L2Sqr(index.rows[i], qe)
      orders == {p \in [1..n -> 1..n] :
                   /\ \A i, j \in 1..n : i # j => p[i] # p[j]
                   /\ \A i, j \in 1..n : i < j => dist(p[i]) <= dist(p[j])}
  IN  {[i \in 1..k |-> IF i <= n THEN [dist |-> dist(p[i]), idx |-> p[i] - 1]
                        ELSE [dist |-> FaissPadDistance, idx |-> -1]] : p \in orders}

\* Python metadata[idx] raises IndexError outside -len .. len-1
IndexErrorAt(metadata, idx) == idx >= Len(metadata) \/ idx < 0 - Len(metadata)

\* Python metadata[idx]: a negative idx counts from the end
PyIndex(metadata, idx) ==
  IF idx >= 0 THEN metadata[idx + 1] ELSE metadata[Len(metadata) + idx + 1]

\* line 191: `if idx < len(metadata)`
ValidIndex_nonnegative(metadata, idx) == 0 <= idx /\ idx < Len(metadata)

ValidIndex(metadata, idx) == idx < Len(metadata)

\* search_similar lines 188-197 on what index.search returned
SearchRaises(found, metadata) ==
  \E i \in 1..Len(found) :
    ValidIndex(metadata, found[i].idx) /\ IndexErrorAt(metadata, found[i].idx)

PrepareResults(found, metadata) ==
  LET article_info(i) ==
        LET m == PyIndex(metadata, found[i].idx)
        IN  [id |-> m.id, headline |-> m.headline, source_url |-> m.source_url,
             published_time |-> m.published_time, source |-> m.source,
             full_news_preview |-> m.full_news_preview,
             similarity_score |-> found[i].dist, rank |-> i]
      RECURSIVE Loop(_)
      Loop(i) ==
        IF i > Len(found) THEN <<>>
        ELSE (IF ValidIndex(metadata, found[i].idx) THEN <<article_info(i)>> ELSE <<>>)
             \o Loop(i + 1)
  IN  Loop(1)

\* query strings handed to search_similar
Queries == {<<"F">>, <<" ">>}

KValues == {1, DefaultK}

\* search_similar from line 183 on, with the index and metadata it works on
Searched(q, k, index, metadata, found) ==
  IF SearchRaises(found, metadata.entries)
  THEN [query EXCEPT !.pc = "idle", !.call = None, !.results = <<>>,
                     !.outcome = "IndexError",
                     !.searched = [none |-> FALSE, q |-> q, k |-> k, index |-> index,
                                   metadata |-> metadata, found |-> found]]
  ELSE [query EXCEPT !.pc = "idle", !.call = None,
                     !.results = PrepareResults(found, metadata.entries),
                     !.outcome = "ok",
                     !.searched = [none |-> FALSE, q |-> q, k |-> k, index |-> index,
                                   metadata |-> metadata, found |-> found]]

\* search_similar returns [] at line 180
SearchedNothing(q, k) ==
  [query EXCEPT !.pc = "idle", !.call = None, !.results = <<>>, !.outcome = "ok",
                !.searched = [none |-> FALSE, q |-> q, k |-> k, index |-> None,
                              metadata |-> None, found |-> <<>>]]

\* load_vector_db returned (index, metadata) to where it was called from: main
\* line 281, or search_similar line 178
Loaded(call, index, metadata, found) ==
  IF call.purpose = "main"
  THEN [query EXCEPT !.pc = "idle", !.call = None, !.index = index, !.metadata = metadata]
  ELSE IF index = None THEN SearchedNothing(call.q, call.k)
  ELSE Searched(call.q, call.k, index, metadata, found)

\* load_vector_db lines 156-162: both files are looked for, the index is read
LoadBegin(call) ==
  /\ query.pc = "idle"
  /\ query' =
       IF indexFile.st = "missing" \/ metadataFile.st = "missing" \/ indexFile.st # "ok"
       THEN Loaded(call, None, None, <<>>)
       ELSE [query EXCEPT !.pc = "read_metadata",
                          !.call = [call EXCEPT !.index = indexFile.index]]
  /\ UNCHANGED <<newsFile, run, mergeCall, indexFile, metadataFile, configFile, builder>>

\* main line 281: index, metadata = vector_db.load_vector_db()
MainLoad == LoadBegin([none |-> FALSE, purpose |-> "main", q |-> <<>>, k |-> 0, index |-> None])

\* load_vector_db lines 165-172: the metadata is read, and the pair returned
LoadEnd ==
  /\ query.pc = "read_metadata"
  /\ \E found \in IF query.call.purpose = "search" /\ metadataFile.st = "ok"
                  THEN FaissSearch(query.call.index, Encode(query.call.q), query.call.k)
                  ELSE {<<>>} :
       query' = IF metadataFile.st # "ok"
                THEN Loaded(query.call, None, None, <<>>)
                ELSE Loaded(query.call, query.call.index,
                            [none |-> FALSE, entries |-> metadataFile.entries], found)
  /\ UNCHANGED <<newsFile, run, mergeCall, indexFile, metadataFile, configFile, builder>>

\* the caller's metadata list after the loop of lines 190-195, had line 192 been
\* `article_info = metadata[idx]`: the writes of lines 193-194 land in the entry
metadata_after_search_aliased(found, metadata) ==
  LET hits(j) == {i \in 1..Len(found) :
                    /\ ValidIndex(metadata, found[i].idx)
                    /\ ~IndexErrorAt(metadata, found[i].idx)
                    /\ (IF found[i].idx >= 0 THEN found[i].idx + 1
                        ELSE Len(metadata) + found[i].idx + 1) = j}
      last(j) == CHOOSE i \in hits(j) : \A h \in hits(j) : h <= i
  IN  [j \in 1..Len(metadata) |->
         IF hits(j) = {} THEN metadata[j]
         ELSE [id |-> metadata[j].id, headline |-> metadata[j].headline,
               source_url |-> metadata[j].source_url,
               published_time |-> metadata[j].published_time,
               source |-> metadata[j].source,
               full_news_preview |-> metadata[j].full_news_preview,
               similarity_score |-> found[last(j)].dist, rank |-> last(j)]]

\* the caller's metadata list after search_similar: line 192 takes a copy of the
\* entry (its values are strings and an int), so lines 193-194 write to the copy
metadata_after_search(found, metadata) == metadata

\* search_similar(q, k, index, metadata) with main's index and metadata
Search(q, k) ==
  IF query.index = None \/ query.metadata = None
  THEN LoadBegin([none |-> FALSE, purpose |-> "search", q |-> q, k |-> k, index |-> None])
  ELSE /\ query.pc = "idle"
       /\ \E found \in FaissSearch(query.index, Encode(q), k) :
            query' = [Searched(q, k, query.index, query.metadata, found) EXCEPT
                        !.metadata =
                          IF SearchRaises(found, query.metadata.entries)
                          THEN query.metadata
                          ELSE [none |-> FALSE,
                                entries |-> metadata_after_search(found,
                                                                  query.metadata.entries)]]
       /\ UNCHANGED <<newsFile, run, mergeCall, indexFile, metadataFile, configFile, builder>>

VdbIdle ==
  /\ indexFile = Missing
  /\ metadataFile = Missing
  /\ configFile = Missing
  /\ builder = NewBuilder
  /\ query = NewQuery

InitIngest ==
  /\ newsFile = Missing
  /\ run = NoRun
  /\ mergeCall = NoCall
  /\ VdbIdle

InitMerge ==
  /\ newsFile = Missing
  /\ run = NoRun
  /\ \E existing_news \in SeqsUpTo(Articles \cup {NoHeadlineRecord}, MaxCorpus),
        new_news \in SeqsUpTo(Articles \cup {NoHeadlineRecord}, MaxBatch) :
       mergeCall = [pc |-> "call", existing_news |-> existing_news,
                    new_news |-> new_news, result |-> <<>>]
  /\ VdbIdle

NextIngest == IngestRun \/ MainExit

NextMerge == MergeCall

SpecIngest == InitIngest /\ [][NextIngest]_vars

SpecMerge == InitMerge /\ [][NextMerge]_vars

(***************************************************************************)
(* The vector database: a building process and a querying process over the *)
(* files a corpus and an earlier build have left.                          *)
(***************************************************************************)
\* the corpora one ingestion run leaves in a news_data.json that was missing
CorporaOfOneRun ==
  {s \in {c.news \o d.news : c \in FetchOutcomes(CnnArticles),
                               d \in FetchOutcomes(DailyStarArticles)} :
     0 < Len(s) /\ Len(s) <= MaxBatch}

\* the corpus an earlier build may have been made over, given the corpus file now:
\* the corpus only grows, and a failed save leaves it undecodable
EarlierCorpora(file) ==
  IF file.st = "ok"
  THEN {SubSeq(file.docs, 1, n) : n \in 1..Len(file.docs)}
  ELSE CorporaOfOneRun

Init ==
  /\ newsFile \in {Missing, Corrupt} \cup {NewsJson(c) : c \in CorporaOfOneRun}
  /\ run = NoRun
  /\ mergeCall = NoCall
  /\ \/ /\ indexFile = Missing
        /\ metadataFile = Missing
        /\ configFile = Missing
     \/ \E docs \in EarlierCorpora(newsFile) :
          /\ indexFile = SavedIndexFile(docs)
          /\ metadataFile = SavedMetadataFile(docs)
          /\ configFile = SavedConfigFile(docs)
  /\ builder \in {NewsVectorDB(model_name) : model_name \in ModelNames}
  /\ query = NewQuery

\* the building process alone: build_from_scratch, again and again
NextBuild ==
  \/ \E fail_at \in 0..MaxCorpus : BuildStart(fail_at)
  \/ \E outcome \in WriteOutcomes : SaveIndex(outcome)
  \/ \E outcome \in WriteOutcomes : SaveMetadata(outcome)
  \/ \E outcome \in WriteOutcomes : SaveConfig(outcome)

SpecBuild == Init /\ [][NextBuild]_vars

\* the building process and, at any moment of it, a querying process that loads
Next ==
  \/ NextBuild
  \/ MainLoad
  \/ LoadEnd

Spec == Init /\ [][Next]_vars

NextSearch ==
  \/ MainLoad
  \/ LoadEnd
  \/ \E q \in Queries, k \in KValues : Search(q, k)

SpecSearch == Init /\ [][NextSearch]_vars

\* The files after a rebuild whose save was interrupted: save_vector_db wrote the
\* index of the corpus as it is now, and the metadata file (and the config file)
\* are still those of the build over the corpus as it was.
InitInterruptedSave ==
  /\ newsFile \in {NewsJson(c) : c \in CorporaOfOneRun}
  /\ run = NoRun
  /\ mergeCall = NoCall
  /\ \E docs \in EarlierCorpora(newsFile) \ {newsFile.docs} :
       /\ indexFile = SavedIndexFile(newsFile.docs)
       /\ metadataFile = SavedMetadataFile(docs)
       /\ configFile = SavedConfigFile(docs)
  /\ builder = NewBuilder
  /\ query = NewQuery

SpecSearchInterrupted == InitInterruptedSave /\ [][NextSearch]_vars

(***************************************************************************)
(* Ingestion and deduplication: claims.                                    *)
(***************************************************************************)
\* r is s with some elements left out, the others in s's order
IsSubsequence(r, s) ==
  \E at \in [1..Len(r) -> 1..Len(s)] :
    /\ \A i, j \in 1..Len(r) : i < j => at[i] < at[j]
    /\ \A i \in 1..Len(r) : r[i] = s[at[i]]

\* C1: after any sequence of ingestion runs no two documents of the persisted
\* corpus have the same headline, also when one fetched batch holds a headline
\* twice.  (Documents with the same headline have the same DedupKey, so this is
\* the least the claim says.)
C1_OneDocumentPerHeadline ==
  newsFile.st = "ok" =>
    \A i, j \in 1..Len(newsFile.docs) :
      i < j => newsFile.docs[i].headline # newsFile.docs[j].headline

\* C6: no two elements of merge_and_deduplicate_news(C, B) have the same headline:
\* of a headline that occurs more than once in B only the first occurrence is
\* accepted.  (As for C1: equal headlines are equal DedupKeys.)
C6_ResultHasNoRepeatedHeadline ==
  mergeCall.pc = "returned" =>
    \A i, j \in 1..Len(mergeCall.result) :
      i < j => mergeCall.result[i].headline # mergeCall.result[j].headline

C8_MergeIdempotent ==
  /\ [](run.ran =>
          merge_and_deduplicate_news(run.existing_news \o run.unique_new_news,
                                     run.all_new_news) = <<>>)
  /\ [][(/\ run.ran
          /\ load_existing_news(newsFile) = run.existing_news \o run.unique_new_news
          /\ run'.all_new_news = run.all_new_news)
         => newsFile' = newsFile]_vars

\* C8 witness: a run that fetched a non-empty batch, every headline of which the
\* corpus file already held, and added nothing
C8_Witness ==
  /\ run.ran
  /\ run.all_new_news # <<>>
  /\ run.unique_new_news = <<>>
  /\ newsFile = NewsJson(run.existing_news)

(***************************************************************************)
(* The vector database: claims.                                            *)
(***************************************************************************)
Disk == <<indexFile, metadataFile, configFile>>

\* C2: after a successful build_from_scratch there are as many metadata entries
\* as index rows, and for every i the i-th metadata entry is the projection of
\* the i-th document of the corpus and the i-th index row is that document's
\* embedding (in the object and in the files written).
C2_MetadataAlignedWithIndex ==
  builder.result = "True" =>
    LET news_data == load_news_data(newsFile)
    IN  /\ indexFile.st = "ok" /\ metadataFile.st = "ok"
        /\ Len(builder.metadata) = Len(indexFile.index.rows)
        /\ Len(metadataFile.entries) = Len(indexFile.index.rows)
        /\ Len(indexFile.index.rows) = Len(news_data)
        /\ \A i \in 1..Len(news_data) :
             /\ builder.metadata[i] = MetadataEntry(i - 1, news_data[i])
             /\ metadataFile.entries[i] = MetadataEntry(i - 1, news_data[i])
             /\ indexFile.index.rows[i] = Encode(prepare_text_for_embedding(news_data[i]))

\* C2 witness: a successful rebuild, over two documents, by an object that had
\* built before
C2_Witness ==
  /\ builder.result = "True"
  /\ Len(load_news_data(newsFile)) >= 2
  /\ builder.disk0[2] = MetadataFileOf(builder.metadata)

\* C3: a search with k greater than the number of rows of the index returns
\* exactly as many results as the index has rows, each of another row.
C3_ExactlyRowCountResults ==
  (/\ query.searched # None
   /\ query.searched.index # None
   /\ query.outcome = "ok"
   /\ query.searched.k > Len(query.searched.index.rows))
  => /\ Len(query.results) = Len(query.searched.index.rows)
     /\ \A i, j \in 1..Len(query.results) :
          i # j => query.results[i].id # query.results[j].id

\* C4: when a write fails during save_vector_db after the index file (or the
\* index and the metadata file) has been written, the index, metadata and config
\* files an earlier build left are as they were before the save.
C4_FailedSaveLeavesFilesUntouched ==
  (/\ builder.result = "raised"
   /\ builder.written >= 1
   /\ \A i \in 1..3 : builder.disk0[i].st = "ok")
  => Disk = builder.disk0

\* the corpora the files on disk may have been built over: the corpus now, and
\* the one of the earlier build
Generations == {load_news_data(newsFile)} \cup EarlierCorpora(newsFile)

\* C5: the (index, metadata) pair load_vector_db returns is the pair of one
\* generation, also when a save is in progress while it reads.
C5_LoadedPairOfOneGeneration ==
  (query.index # None /\ query.metadata # None) =>
    \E docs \in Generations \ {<<>>} :
      /\ query.index = SavedIndexFile(docs).index
      /\ query.metadata.entries = SavedMetadataFile(docs).entries

\* C9: a build over an empty corpus (the corpus file missing or undecodable) ends
\* in Loading, reported to the caller (build_from_scratch returns False), with no
\* text handed to the embedding provider and no file written: the three files
\* are as they were.
C9_EmptyCorpusFailsInLoading ==
  (builder.pc = "idle" /\ builder.stages # <<>> /\ load_news_data(newsFile) = <<>>) =>
    /\ builder.result = "False"
    /\ builder.stages = <<"Loading">>
    /\ builder.encoded = 0
    /\ builder.written = 0
    /\ Disk = builder.disk0

\* C9 witness: a build over an undecodable corpus file, with the files of an
\* earlier build on disk
C9_Witness ==
  /\ builder.result = "False"
  /\ newsFile.st = "corrupt"
  /\ indexFile.st = "ok" /\ metadataFile.st = "ok" /\ configFile.st = "ok"

\* C10: when the embedding provider fails during a build, the build ends with
\* an exception to the caller and save_vector_db does not run: no file is
\* written, the three files are as they were.
C10_ProviderFailureAbortsBuild ==
  builder.provider_failed =>
    /\ builder.pc = "idle"
    /\ builder.result = "raised"
    /\ "Persisted" \notin Range(builder.stages)
    /\ builder.written = 0
    /\ Disk = builder.disk0

\* C10 witness: the provider failed in a rebuild over two documents
C10_Witness ==
  /\ builder.provider_failed
  /\ builder.encoded = 2
  /\ indexFile.st = "ok"

\* C11: load_vector_db checks the alignment again on every load: a pair whose
\* metadata has another length than the index has rows is never returned to the
\* querying process.
C11_LoadReturnsNoMismatchedPair ==
  (query.pc = "idle" /\ query.index # None /\ query.metadata # None) =>
    Len(query.metadata.entries) = Len(query.index.rows)

\* C12: after an ingestion run the documents the corpus file held before the run
\* are still in it, unmodified and at their positions, with the accepted ones
\* appended after them in their order; also when the save of the run failed.
C12_CorpusOnlyGrows ==
  (run.ran /\ run.existing_news # <<>>) =>
    /\ newsFile.st = "ok"
    /\ Len(newsFile.docs) >= Len(run.existing_news)
    /\ SubSeq(newsFile.docs, 1, Len(run.existing_news)) = run.existing_news
    /\ newsFile.docs \in {run.existing_news, run.existing_news \o run.unique_new_news}

\* a text that is empty or holds blanks only
IsBlank(text) == \A i \in 1..Len(text) : text[i] = " "

\* C13: search_similar called with an empty or whitespace-only query ends with
\* InvalidQueryError before line 183: the text is not handed to the embedding
\* provider and nothing is searched.
C13_BlankQueryRejectedBeforeEmbedding ==
  (query.searched # None /\ IsBlank(query.searched.q)) =>
    /\ query.outcome = "InvalidQueryError"
    /\ query.searched.index = None
    /\ query.searched.found = <<>>

\* C14: a call of search_similar, returning results, returning [] or raising,
\* leaves the index and the metadata list of its caller as they were: the score
\* and the rank are written to copies of the entries.
C14_SearchLeavesIndexAndMetadata ==
  [][(\E q \in Queries, k \in KValues : Search(q, k)) =>
       /\ query'.index = query.index
       /\ query'.metadata = query.metadata]_vars

\* C14 witness: a search over the index and metadata main had loaded returned
\* annotated results, and main holds that index and metadata
C14_Witness ==
  /\ query.index # None /\ query.metadata # None
  /\ query.searched # None
  /\ query.searched.index = query.index
  /\ query.searched.metadata = query.metadata
  /\ Len(query.results) >= 2
  /\ query.results[1].rank = 1

\* C15: with the index file, the metadata file or the config file missing, a
\* load does not succeed, and a search_similar that had to load ends with
\* NotFoundError for its caller, not with a list of results.
C15_MissingArtifactIsNotFoundError ==
  (\/ indexFile.st = "missing"
   \/ metadataFile.st = "missing"
   \/ configFile.st = "missing")
  => /\ query.index = None
     /\ query.searched # None => query.outcome = "NotFoundError"

C17_MergeNeverRaises ==
  mergeCall.pc # "raised"

\* the stages of a build, in their order
StageOrder == <<"Loading", "Embedding", "Building", "Persisted">>

\* C18: the stages a build has entered are an initial part of Loading, Embedding,
\* Building, Persisted (none skipped, none twice); save_vector_db runs only
\* after the corpus was loaded non-empty, every document was embedded and the
\* index was built over all of them; and a build that failed in a stage entered
\* no later stage and wrote no file.
C18_StagesInOrder ==
  LET news_data == load_news_data(newsFile)
  IN  /\ \E n \in 0..Len(StageOrder) : builder.stages = SubSeq(StageOrder, 1, n)
      /\ "Embedding" \in Range(builder.stages) => news_data # <<>>
      /\ "Building" \in Range(builder.stages) =>
            /\ builder.encoded = Len(news_data)
            /\ Len(builder.embeddings) = Len(news_data)
      /\ "Persisted" \in Range(builder.stages) =>
            /\ Len(builder.embeddings) = Len(news_data)
            /\ Len(builder.metadata) = Len(news_data)
            /\ builder.pc # "idle" => Len(builder.index.rows) = Len(news_data)
      /\ (builder.written > 0 \/ builder.pc # "idle") =>
            "Persisted" \in Range(builder.stages)
      /\ (builder.pc = "idle" /\ builder.stages # <<>>
            /\ "Persisted" \notin Range(builder.stages)) =>
            /\ builder.result \in {"False", "raised"}
            /\ builder.written = 0
            /\ Disk = builder.disk0

\* C18 witness: a build over two documents went through the four stages and
\* returned True, writing the three files where there were none
C18_Witness ==
  /\ builder.result = "True"
  /\ builder.stages = StageOrder
  /\ builder.written = 3
  /\ Len(load_news_data(newsFile)) >= 2
  /\ builder.disk0 = <<Missing, Missing, Missing>>

\* C19: the ranks of the results search_similar returns are 1, 2, ..., n in this
\* order, n the number of results, also when a row index.search returned has no
\* metadata entry and is left out.
C19_RanksAreOneToN ==
  (query.searched # None /\ query.outcome = "ok") =>
    \A i \in 1..Len(query.results) : query.results[i].rank = i

\* the files an interrupted save leaves are files the building process leaves:
\* the index file of the corpus now, the metadata file of an earlier corpus
InterruptedSaveOnDisk ==
  /\ builder.pc = "idle"
  /\ builder.result = "raised"
  /\ newsFile.st = "ok"
  /\ indexFile = SavedIndexFile(newsFile.docs)
  /\ \E docs \in EarlierCorpora(newsFile) \ {newsFile.docs} :
       /\ metadataFile = SavedMetadataFile(docs)
       /\ configFile = SavedConfigFile(docs)

\* C20: however many builds the object has run before, failed ones among them,
\* a build leaves self.metadata with as many entries as the corpus has documents,
\* and a successful build leaves the metadata, the index rows and the index and
\* metadata files that the first build of a new object over this corpus leaves.
C20_BuildIsFullRebuild ==
  LET news_data == load_news_data(newsFile)
  IN  /\ "Embedding" \in Range(builder.stages) =>
            /\ Len(builder.metadata) = Len(news_data)
            /\ builder.metadata = SavedMetadataFile(news_data).entries
      /\ builder.result = "True" =>
            /\ builder.embeddings = SavedIndexFile(news_data).index.rows
            /\ indexFile = SavedIndexFile(news_data)
            /\ metadataFile = SavedMetadataFile(news_data)

\* C20 witness: a successful build over two documents that found on disk the
\* three files of a build over the same corpus, and left them as they were
C20_Witness ==
  /\ builder.result = "True"
  /\ Len(load_news_data(newsFile)) >= 2
  /\ builder.disk0 = Disk

\* C21: in an ingestion run the one call of merge is made on the batches of both
\* fetchers, after each has returned or failed: a fetcher that failed gives the
\* empty batch, the merged batch is the CNN batch followed by the Daily Star
\* batch, what is accepted is merge of the corpus and that batch, and after a
\* save that worked every fetched document with a headline new to the corpus is
\* in the corpus file, whatever the other fetcher did.
C21_MergeOnceAfterBothFetchers ==
  run.ran =>
    /\ run.cnn_failed => run.cnn_news = <<>>
    /\ run.ds_failed => run.daily_star_news = <<>>
    /\ run.all_new_news = run.cnn_news \o run.daily_star_news
    /\ run.unique_new_news =
         merge_and_deduplicate_news(run.existing_news, run.all_new_news)
    /\ (run.save = "none") <=> (run.unique_new_news = <<>>)
    /\ run.save = "ok" =>
         /\ newsFile = NewsJson(run.existing_news \o run.unique_new_news)
         /\ \A doc \in Range(run.cnn_news) \cup Range(run.daily_star_news) :
              doc.headline \notin existing_headlines(run.existing_news)
                => doc \in Range(newsFile.docs)

\* C21 witness: the CNN fetcher failed, and the documents of the Daily Star
\* fetcher were merged with a corpus that held documents and saved
C21_Witness ==
  /\ run.ran
  /\ run.cnn_failed /\ ~run.ds_failed
  /\ run.existing_news # <<>>
  /\ run.unique_new_news # <<>>
  /\ run.unique_new_news = run.daily_star_news
  /\ newsFile = NewsJson(run.existing_news \o run.daily_star_news)

\* C22: the config file a successful save has written describes the index saved
\* with it: num_articles is the number of metadata entries and of index rows,
\* embedding_dim is the dimension of the index, and model_name is the name of the
\* model the object was constructed with and embedded the corpus with.
C22_ConfigDescribesSavedIndex ==
  builder.result = "True" =>
    /\ configFile.st = "ok" /\ indexFile.st = "ok" /\ metadataFile.st = "ok"
    /\ configFile.cfg.num_articles = Len(metadataFile.entries)
    /\ configFile.cfg.num_articles = Len(indexFile.index.rows)
    /\ configFile.cfg.embedding_dim = indexFile.index.d
    /\ configFile.cfg.model_name = builder.model_name
====
